---- MODULE Spec2Model ----
(***************************************************************************)
(* A model of the gender-bias detectors:                                   *)
(*   genderbias/publications/__init__.py  identify_publications and        *)
(*                                        PublicationDetector              *)
(*   genderbias/effort/__init__.py        EffortDetector.get_report        *)
(* Numbers that are floats in the source are kept as integers:             *)
(*   publication weights and min_publications in hundredths (0.25 is 25),  *)
(*   bias scores in halves (Issue.positive_result * 0.5 is 1).             *)
(***************************************************************************)
EXTENDS Integers, Sequences, FiniteSets, TLC

VARIABLES
    pc,                      \* position of the caller: which call has returned
    text,                    \* publications: the document's text, a sequence of characters
    min_publications,        \* PublicationDetector.min_publications (hundredths)
    potential_publications,  \* the mapping identify_publications returned
    report,                  \* the Report the detector returned
    stdout,                  \* what get_summary printed
    doc,                     \* effort: the document, a sequence of tokens
    effort_words,            \* get_report's local counter
    accomplishment_words,    \* get_report's local counter
    flags                    \* get_report's local collection of Pass-B tuples

vars == <<pc, text, min_publications, potential_publications, report, stdout,
          doc, effort_words, accomplishment_words, flags>>

(***************************************************************************)
(* Bounds of the model.                                                    *)
(***************************************************************************)
MaxLen == 6          \* longest text drawn character by character
MaxChunks == 8       \* longest text drawn title by title
MaxTokens == 5       \* longest document given to the EffortDetector

(***************************************************************************)
(* Values shared by the detectors.                                         *)
(***************************************************************************)
None == "None"
EmptyDict == [k \in {} |-> 0]
Range(s) == {s[i] : i \in DOMAIN s}

RECURSIVE Join(_)
Join(chars) == IF chars = <<>> THEN "" ELSE Head(chars) \o Join(Tail(chars))

RECURSIVE Flatten(_)
Flatten(ss) == IF ss = <<>> THEN <<>> ELSE Head(ss) \o Flatten(Tail(ss))

SeqsUpTo(S, n) == UNION {[1..k -> S] : k \in 0..n}

\* genderbias.detector.Report: a label, the flags in the order they were added,
\* and a summary, None until one is set.
Report(name) == [name |-> name, flags |-> <<>>, summary |-> None]
add_flag(r, f) == [r EXCEPT !.flags = Append(@, f)]
set_summary(r, s) == [r EXCEPT !.summary = s]

(***************************************************************************)
(* publications/__init__.py                                                *)
(***************************************************************************)
QUOTE == "\""
Chars == {QUOTE, "a", "b"}
TITLE == <<QUOTE, "a", QUOTE>>
FILLER == <<"a">>

\* The documents handed to the publication functions.
Texts == SeqsUpTo(Chars, MaxLen)
         \cup {Flatten(cs) : cs \in SeqsUpTo({TITLE, FILLER}, MaxChunks)}

\* [^"]+ is greedy: from j it runs to the next quote or to the end of the text.
RECURSIVE RunEnd(_, _)
RunEnd(t, j) ==
    IF j > Len(t) \/ t[j] = QUOTE THEN j ELSE RunEnd(t, j + 1)

\* re.findall('"[^"]+"', t) scanning from position i: the matches, left to
\* right; the scan resumes after a match, or one character on when the
\* attempt at i fails.
RECURSIVE findall(_, _)
findall(t, i) ==
    IF i > Len(t) THEN <<>>
    ELSE IF t[i] # QUOTE THEN findall(t, i + 1)
    ELSE LET j == RunEnd(t, i + 1) IN
         IF j > i + 1 /\ j <= Len(t)
         THEN <<Join(SubSeq(t, i, j))>> \o findall(t, j + 1)
         ELSE findall(t, i + 1)

Accumulate_NoSum(pp, match) ==
    IF match \notin DOMAIN pp THEN pp @@ (match :> 25) ELSE pp

\* The body of the loop over the matches.
Accumulate(pp, match) ==
    LET pp0 == IF match \notin DOMAIN pp THEN pp @@ (match :> 0) ELSE pp
    IN  [pp0 EXCEPT ![match] = @ + 25]

RECURSIVE AccumulateAll(_, _)
AccumulateAll(pp, matches) ==
    IF matches = <<>> THEN pp
    ELSE AccumulateAll(Accumulate(pp, Head(matches)), Tail(matches))

identify_publications(t) == AccumulateAll(EmptyDict, findall(t, 1))

RECURSIVE SumValues(_, _)
SumValues(d, keys) ==
    IF keys = {} THEN 0
    ELSE LET k == CHOOSE x \in keys : TRUE
         IN  d[k] + SumValues(d, keys \ {k})

\* math.ceil of a number of hundredths.
ceil(h) == -((-h) \div 100)

\* PublicationDetector.__init__(**kwargs)
KwargsInputs == {EmptyDict} \cup {("min_publications" :> m) : m \in {-50, 100, 125, 200}}
kwargs_get(kwargs, key, default) ==
    IF key \in DOMAIN kwargs THEN kwargs[key] ELSE default

NotEnough ==
    "This document does not mention many publications. "
    \o "Try referencing more concrete publications or work "
    \o "byproducts, if possible."
AtLeast(n) == "The text appears to mention at least " \o ToString(n) \o " publications."
AtLeastOne == "The text appears to mention at least one publication."

get_summary_Floor(t, minp) ==
    LET d == identify_publications(t)
        pub_count == SumValues(d, DOMAIN d)
    IN  IF pub_count < minp THEN NotEnough
        ELSE IF minp > 100 THEN AtLeast(minp \div 100 + 1)
        ELSE AtLeastOne

get_summary(t, minp) ==
    LET d == identify_publications(t)
        pub_count == SumValues(d, DOMAIN d)
    IN  IF pub_count < minp THEN NotEnough
        ELSE IF minp > 100 THEN AtLeast(ceil(minp))
        ELSE AtLeastOne

\* get_summary prints the summary in its middle branch only.
Printed(t, minp) ==
    LET s == get_summary(t, minp) IN
    IF s \notin {NotEnough, AtLeastOne} THEN <<s>> ELSE <<>>

EffortIdle ==
    /\ doc = <<>>
    /\ effort_words = 0
    /\ accomplishment_words = 0
    /\ flags = <<>>

PubIdle ==
    /\ text = <<>>
    /\ min_publications = None
    /\ potential_publications = None
    /\ stdout = <<>>

\* A call of identify_publications on the document.
IdentifyPublications ==
    /\ pc = "start"
    /\ potential_publications' = identify_publications(text)
    /\ pc' = "done"
    /\ UNCHANGED <<text, min_publications, report, stdout,
                   doc, effort_words, accomplishment_words, flags>>

InitIdentify ==
    /\ pc = "start"
    /\ text \in Texts
    /\ min_publications = None
    /\ potential_publications = None
    /\ report = None
    /\ stdout = <<>>
    /\ EffortIdle

SpecIdentify == InitIdentify /\ [][IdentifyPublications]_vars

\* PublicationDetector(**kwargs)
Construct ==
    /\ pc = "new"
    /\ \E kwargs \in KwargsInputs :
          min_publications' = kwargs_get(kwargs, "min_publications", 50)
    /\ pc' = "ready"
    /\ UNCHANGED <<text, potential_publications, report, stdout,
                   doc, effort_words, accomplishment_words, flags>>

\* PublicationDetector.get_report(doc)
PubGetReport ==
    /\ pc = "ready"
    /\ report' = set_summary(Report("Publications"), get_summary(text, min_publications))
    /\ stdout' = stdout \o Printed(text, min_publications)
    /\ pc' = "done"
    /\ UNCHANGED <<text, min_publications, potential_publications,
                   doc, effort_words, accomplishment_words, flags>>

InitPub ==
    /\ pc = "new"
    /\ text \in Texts
    /\ min_publications = None
    /\ potential_publications = None
    /\ report = None
    /\ stdout = <<>>
    /\ EffortIdle

NextPub == Construct \/ PubGetReport

SpecPub == InitPub /\ [][NextPub]_vars

(***************************************************************************)
(* The Document and the parser the EffortDetector reads.                   *)
(* A document is a sequence of tokens; its text is the tokens separated by *)
(* single spaces, with no space before a full stop.                        *)
(***************************************************************************)
Vocabulary == {"She", "I", "Mary", "was", "thorough", "groundbreaking", "Thorough", "."}
Documents == SeqsUpTo(Vocabulary, MaxTokens)

\* str.lower on the vocabulary.
lower(word) ==
    CASE word = "She" -> "she"
      [] word = "I" -> "i"
      [] word = "Mary" -> "mary"
      [] word = "Thorough" -> "thorough"
      [] OTHER -> word

\* The characters between the previous token and token i.
Gap(d, i) == IF i = 1 \/ d[i] = "." THEN 0 ELSE 1

RECURSIVE StartOf(_, _)
StartOf(d, i) ==
    IF i = 1 THEN 0 ELSE StartOf(d, i - 1) + Len(d[i - 1]) + Gap(d, i)

\* Sentences end with a full stop: the first and the last token of the
\* sentence token i is in.
SentFirst(d, i) ==
    LET stops == {k \in 1..(i - 1) : d[k] = "."}
    IN  IF stops = {} THEN 1 ELSE (CHOOSE k \in stops : \A m \in stops : m <= k) + 1
SentLast(d, i) ==
    LET stops == {k \in i..Len(d) : d[k] = "."}
    IN  IF stops = {} THEN Len(d) ELSE CHOOSE k \in stops : \A m \in stops : k <= m
words_with_indices_InSentence(d) ==
    [i \in 1..Len(d) |->
        [word |-> d[i], start |-> StartOf(d, i) - StartOf(d, SentFirst(d, i)),
         stop |-> StartOf(d, i) - StartOf(d, SentFirst(d, i)) + Len(d[i])]]

\* Document.words_with_indices(): (word, start, stop), offsets into the text.
words_with_indices(d) ==
    [i \in 1..Len(d) |->
        [word |-> d[i], start |-> StartOf(d, i), stop |-> StartOf(d, i) + Len(d[i])]]

\* Document.words()
words(d) == [i \in 1..Len(d) |-> d[i]]

\* Issue.positive_result and Issue.negative_result, in halves.
positive_result == 2
negative_result == -2

Issue(name, issue_text, fix, bias) ==
    [name |-> name, text |-> issue_text, fix |-> fix, bias |-> bias]
Flag(start, stop, issue) == [start |-> start, stop |-> stop, issue |-> issue]

\* The wordlists, one stripped line each.  The .wordlist files hold many
\* more words; one word of each list stands for them.
ACCOMPLISHMENT_WORDS == {"groundbreaking"}
EFFORT_WORDS == {"thorough"}
_PRONOUNS_TO_IGNORE == {"me", "myself", "I"}

\* nlp(doc.text()): the token stream of the spaCy pipeline, with the
\* attributes get_report reads (text, pos_, dep_, head, sent).  The pipeline
\* is a library; here it parses the small vocabulary the same way on every
\* call.  The root of a sentence is its first "was", or its first token when
\* it has none; every other token of the sentence hangs from the root; an
\* adjective after a "was" root is its adjectival complement.
RootOf(d, i) ==
    LET verbs == {k \in SentFirst(d, i)..SentLast(d, i) : d[k] = "was"}
    IN  IF verbs = {} THEN SentFirst(d, i) ELSE CHOOSE k \in verbs : \A m \in verbs : k <= m
PosOf(w) ==
    CASE w \in {"She", "I"} -> "PRON"
      [] w = "Mary" -> "PROPN"
      [] w = "was" -> "AUX"
      [] w = "." -> "PUNCT"
      [] OTHER -> "ADJ"
DepOf(d, i) ==
    LET root == RootOf(d, i) IN
    CASE i = root -> "ROOT"
      [] i # root /\ PosOf(d[i]) \in {"PRON", "PROPN"} -> "nsubj"
      [] i # root /\ PosOf(d[i]) = "ADJ" ->
            IF d[root] = "was" /\ root < i THEN "acomp" ELSE "amod"
      [] i # root /\ PosOf(d[i]) = "PUNCT" -> "punct"
      [] OTHER -> "conj"
TokenAt(d, i) ==
    [text |-> d[i], pos_ |-> PosOf(d[i]), dep_ |-> DepOf(d, i), head |-> RootOf(d, i),
     sent_start_char |-> StartOf(d, SentFirst(d, i)),
     sent_end_char |-> StartOf(d, SentLast(d, i)) + Len(d[SentLast(d, i)])]
RECURSIVE TokensFrom(_, _)
TokensFrom(d, i) ==
    IF i > Len(d) THEN <<>> ELSE <<TokenAt(d, i)>> \o TokensFrom(d, i + 1)
nlp(d) == TokensFrom(d, 1)

\* token.children: the tokens whose head is h, in document order.
RECURSIVE ChildrenFrom(_, _, _)
ChildrenFrom(parse, h, i) ==
    IF i > Len(parse) THEN <<>>
    ELSE (IF parse[i].head = h /\ i # h THEN <<i>> ELSE <<>>) \o ChildrenFrom(parse, h, i + 1)
children(parse, h) == ChildrenFrom(parse, h, 1)

(***************************************************************************)
(* effort/__init__.py: EffortDetector.get_report                           *)
(***************************************************************************)
CATEGORY == "Effort vs Accomplishment"
PassAEffortText(word) ==
    "The word '" \o word \o "' tends to speak more about "
    \o "effort than concrete accomplishment."
PassAFix == "Speak about concrete achievement rather " \o "than abstract effort."
PassAAccomplishmentText(word) ==
    "The word '" \o word \o "' illustrates concrete accomplishment."
PassBAccomplishmentText(word) ==
    "The word '" \o word \o "' refers to " \o "explicit accomplishment rather than effort."
PassBEffortText(word) ==
    "The word '" \o word \o "' tends to speak " \o "about effort more than accomplishment."
PassBFix == "Try replacing with phrasing that " \o "emphasizes accomplishment."

PassAWord_NoLower(r, w) ==
    LET r1 == IF w.word \in EFFORT_WORDS
              THEN add_flag(r, Flag(w.start, w.stop,
                       Issue(CATEGORY, PassAEffortText(w.word), PassAFix,
                             negative_result \div 2)))
              ELSE r
    IN  IF w.word \in ACCOMPLISHMENT_WORDS
        THEN add_flag(r1, Flag(w.start, w.stop,
                 Issue(CATEGORY, PassAAccomplishmentText(w.word), "",
                       positive_result \div 2)))
        ELSE r1

\* The body of the loop over words_with_indices: two independent tests.
PassAWord(r, w) ==
    LET r1 == IF lower(w.word) \in EFFORT_WORDS
              THEN add_flag(r, Flag(w.start, w.stop,
                       Issue(CATEGORY, PassAEffortText(w.word), PassAFix,
                             negative_result \div 2)))
              ELSE r
    IN  IF lower(w.word) \in ACCOMPLISHMENT_WORDS
        THEN add_flag(r1, Flag(w.start, w.stop,
                 Issue(CATEGORY, PassAAccomplishmentText(w.word), "",
                       positive_result \div 2)))
        ELSE r1

RECURSIVE PassA(_, _)
PassA(r, wwi) ==
    IF wwi = <<>> THEN r ELSE PassA(PassAWord(r, Head(wwi)), Tail(wwi))

flags_add_List(fs, tuple) == Append(fs, tuple)

\* flags.add(tuple) on a set, kept as a sequence without repetition.
flags_add(fs, tuple) == IF tuple \in Range(fs) THEN fs ELSE Append(fs, tuple)

IsReference_NoIgnore(reference_token) ==
    reference_token.pos_ \in {"PRON", "PROPN"}

\* The test on a child of the head.
IsReference(reference_token) ==
    /\ reference_token.pos_ \in {"PRON", "PROPN"}
    /\ reference_token.text \notin _PRONOUNS_TO_IGNORE

\* The body of the loop over token.head.children; st holds the locals
\* accomplishment_words, effort_words and flags.
PassBReference(st, token, reference_token) ==
    IF IsReference(reference_token)
    THEN IF token.text \in ACCOMPLISHMENT_WORDS
         THEN [accomplishment_words |-> st.accomplishment_words + 1,
               effort_words |-> st.effort_words,
               flags |-> flags_add(st.flags,
                   <<token.sent_start_char, token.sent_end_char,
                     PassBAccomplishmentText(token.text), "", positive_result>>)]
         ELSE IF token.text \in EFFORT_WORDS
         THEN [accomplishment_words |-> st.accomplishment_words,
               effort_words |-> st.effort_words + 1,
               flags |-> flags_add(st.flags,
                   <<token.sent_start_char, token.sent_end_char,
                     PassBEffortText(token.text), PassBFix, negative_result>>)]
         ELSE st
    ELSE st

RECURSIVE PassBReferences(_, _, _, _)
PassBReferences(st, parse, token, cs) ==
    IF cs = <<>> THEN st
    ELSE PassBReferences(PassBReference(st, token, parse[Head(cs)]), parse, token, Tail(cs))

\* The loop over the tokens, from token i on.
RECURSIVE PassB(_, _, _)
PassB(st, parse, i) ==
    IF i > Len(parse) THEN st
    ELSE IF parse[i].dep_ = "acomp"
    THEN PassB(PassBReferences(st, parse, parse[i], children(parse, parse[i].head)),
               parse, i + 1)
    ELSE PassB(st, parse, i + 1)

\* The loop over the flags: a set is walked in an order of its own.
Orders(n) == {p \in [1..n -> 1..n] : \A i, j \in 1..n : p[i] = p[j] => i = j}
RECURSIVE AddFlags(_, _)
AddFlags(r, tuples) ==
    IF tuples = <<>> THEN r
    ELSE LET t == Head(tuples)
         IN  AddFlags(add_flag(r, Flag(t[1], t[2], Issue(CATEGORY, t[3], t[4], t[5]))),
                      Tail(tuples))

SummaryText(e, a) ==
    "This document has a high ratio of words suggesting "
    \o "effort (" \o ToString(e) \o ") to words suggesting "
    \o "concrete accomplishment (" \o ToString(a) \o ")."

\* The summary rule; the message is built from effort_words twice.
Summarise(r, e, a) ==
    IF 0 < e /\ e <= a THEN set_summary(r, SummaryText(e, e)) ELSE r

\* EffortDetector.get_report(doc)
GetReport ==
    /\ pc = "start"
    /\ \E rA \in {PassA(Report(CATEGORY), words_with_indices(doc))} :
       \E parse \in {nlp(doc)} :
       \E st \in {PassB([accomplishment_words |-> 0, effort_words |-> 0, flags |-> <<>>],
                        parse, 1)} :
       \E p \in Orders(Len(st.flags)) :
          /\ report' = Summarise(AddFlags(rA, [i \in 1..Len(st.flags) |-> st.flags[p[i]]]),
                                 st.effort_words, st.accomplishment_words)
          /\ effort_words' = st.effort_words
          /\ accomplishment_words' = st.accomplishment_words
          /\ flags' = st.flags
    /\ pc' = "done"
    /\ UNCHANGED <<text, min_publications, potential_publications, stdout, doc>>

Init ==
    /\ pc = "start"
    /\ doc \in Documents
    /\ effort_words = 0
    /\ accomplishment_words = 0
    /\ flags = <<>>
    /\ report = None
    /\ PubIdle

Next == GetReport

Spec == Init /\ [][Next]_vars

(***************************************************************************)
(* The claims.                                                             *)
(***************************************************************************)

\* The double-quoted substrings of t: a quote at s, a quote at e, at least one
\* character between them and no quote between them.
QuotedSpans(t) ==
    {c \in (1..Len(t)) \X (1..Len(t)) :
        /\ t[c[1]] = QUOTE /\ t[c[2]] = QUOTE /\ c[2] > c[1] + 1
        /\ \A k \in (c[1] + 1)..(c[2] - 1) : t[k] # QUOTE}

\* Those matched left to right without overlap: a span is matched unless its
\* opening quote closes a matched span.
LeftmostMatches(t) ==
    CHOOSE M \in SUBSET QuotedSpans(t) :
        \A c \in QuotedSpans(t) : c \in M <=> ~(\E d \in M : d[2] = c[1])

KeyOf(t, c) == Join(SubSeq(t, c[1], c[2]))

C9_NegativeRejected ==
    pc = "done" => min_publications >= 0

\* The children of token i's head that are a pronoun or a proper noun other
\* than "I", "me", "myself".
ReferencedSubjects(parse, i) ==
    {c \in DOMAIN parse :
        /\ c # parse[i].head /\ parse[c].head = parse[i].head
        /\ parse[c].pos_ \in {"PRON", "PROPN"}
        /\ parse[c].text \notin {"I", "me", "myself"}}

\* The adjectival complements with a referenced subject whose text is in the
\* accomplishment list, and those in the effort list only.
AccomplishmentTokens(parse) ==
    {i \in DOMAIN parse :
        /\ parse[i].dep_ = "acomp" /\ ReferencedSubjects(parse, i) # {}
        /\ parse[i].text \in ACCOMPLISHMENT_WORDS}
EffortTokens(parse) ==
    {i \in DOMAIN parse :
        /\ parse[i].dep_ = "acomp" /\ ReferencedSubjects(parse, i) # {}
        /\ parse[i].text \in EFFORT_WORDS \ ACCOMPLISHMENT_WORDS}

\* The report's lexical flags carry half a constant, its syntactic flags a
\* whole one.
PassAFlags == {k \in DOMAIN report.flags : 2 * report.flags[k].issue.bias
                                              \in {positive_result, negative_result}}
PassBFlags == {k \in DOMAIN report.flags : report.flags[k].issue.bias
                                              \in {positive_result, negative_result}}
TupleOf(f) == <<f.start, f.stop, f.issue.text, f.issue.fix, f.issue.bias>>

\* C3: a summary is set if and only if 0 < effort count <= accomplishment
\* count, and the message cites the effort count and the accomplishment count.
C3_SummaryCitesBothCounts ==
    pc = "done" =>
        /\ report.summary # None <=> (0 < effort_words /\ effort_words <= accomplishment_words)
        /\ report.summary # None =>
              report.summary = SummaryText(effort_words, accomplishment_words)

\* C4: a document with more effort statements than accomplishment statements
\* gets a report that carries a summary.
C4_MoreEffortGetsSummary ==
    pc = "done" =>
        \A parse \in {nlp(doc)} :
            Cardinality(EffortTokens(parse)) > Cardinality(AccomplishmentTokens(parse))
                => report.summary # None

\* C5: Pass A gives every word whose lowercase is in the effort list one flag
\* at its (start, stop) with half the negative constant and a suggestion, every
\* word whose lowercase is in the accomplishment list one flag at its
\* (start, stop) with half the positive constant and no suggestion, and
\* nothing else; repeated words are flagged once per occurrence.
C5_PassALexicalFlags ==
    pc = "done" =>
        \A wwi \in {words_with_indices(doc)} :
            LET At(i, b) == {k \in DOMAIN report.flags :
                                /\ report.flags[k].start = wwi[i].start
                                /\ report.flags[k].stop = wwi[i].stop
                                /\ 2 * report.flags[k].issue.bias = b}
                Listed(L) == {i \in DOMAIN wwi : lower(wwi[i].word) \in L}
            IN  /\ \A i \in DOMAIN wwi :
                      /\ Cardinality(At(i, negative_result))
                            = IF i \in Listed(EFFORT_WORDS) THEN 1 ELSE 0
                      /\ \A k \in At(i, negative_result) : report.flags[k].issue.fix # ""
                      /\ Cardinality(At(i, positive_result))
                            = IF i \in Listed(ACCOMPLISHMENT_WORDS) THEN 1 ELSE 0
                      /\ \A k \in At(i, positive_result) : report.flags[k].issue.fix = ""
                /\ Cardinality(PassAFlags)
                      = Cardinality(Listed(EFFORT_WORDS)) + Cardinality(Listed(ACCOMPLISHMENT_WORDS))

\* A listed word twice, once capitalised, each occurrence flagged.
C5_Witness ==
    /\ pc = "done"
    /\ \E i, j \in DOMAIN doc : doc[i] = "Thorough" /\ doc[j] = "thorough"
    /\ Cardinality(PassAFlags) >= 2

\* C6: a Pass-B flag, and a count, comes only from an adjectival complement
\* whose head has a child that is a pronoun or proper noun other than "I",
\* "me", "myself".
C6_SelfReferenceExcluded ==
    pc = "done" =>
        \A parse \in {nlp(doc)} :
            /\ \A k \in PassBFlags :
                  \E i \in DOMAIN parse :
                      /\ parse[i].dep_ = "acomp"
                      /\ ReferencedSubjects(parse, i) # {}
                      /\ report.flags[k].start = parse[i].sent_start_char
                      /\ report.flags[k].stop = parse[i].sent_end_char
                      /\ report.flags[k].issue.text
                            \in {PassBEffortText(parse[i].text),
                                 PassBAccomplishmentText(parse[i].text)}
            /\ effort_words + accomplishment_words > 0 =>
                  \E i \in DOMAIN parse :
                      parse[i].dep_ = "acomp" /\ ReferencedSubjects(parse, i) # {}

\* "I was thorough": a listed adjectival complement whose only candidate
\* subject is "I"; Pass A flags the word, Pass B nothing.
C6_Witness ==
    /\ pc = "done"
    /\ \E parse \in {nlp(doc)} : \E i \in DOMAIN parse :
          /\ parse[i].dep_ = "acomp" /\ parse[i].text \in EFFORT_WORDS
          /\ \E c \in DOMAIN parse : parse[c].head = parse[i].head /\ parse[c].text = "I"
          /\ ReferencedSubjects(parse, i) = {}
    /\ PassBFlags = {}
    /\ PassAFlags # {}

\* C7: no two Pass-B flags of the report have the same (start, stop, warning,
\* suggestion, bias), and the Pass-B flags are exactly the distinct tuples the
\* scan finds.
C7_PassBDeduplicated ==
    pc = "done" =>
        \A parse \in {nlp(doc)} :
            /\ \A k1, k2 \in PassBFlags :
                  TupleOf(report.flags[k1]) = TupleOf(report.flags[k2]) => k1 = k2
            /\ {TupleOf(report.flags[k]) : k \in PassBFlags}
                  = {<<parse[i].sent_start_char, parse[i].sent_end_char,
                       PassBAccomplishmentText(parse[i].text), "", positive_result>> :
                         i \in AccomplishmentTokens(parse)}
                    \cup
                    {<<parse[i].sent_start_char, parse[i].sent_end_char,
                       PassBEffortText(parse[i].text), PassBFix, negative_result>> :
                         i \in EffortTokens(parse)}

\* Two distinct tuples, each reached more than once.
C7_Witness ==
    /\ pc = "done"
    /\ Cardinality(PassBFlags) >= 2
    /\ effort_words > 1
    /\ accomplishment_words > 1

\* C8: words_with_indices() has as many entries as words(), stop >= start in
\* every entry, and start and stop never decrease from one entry to the next.
C8_WordOffsets ==
    \A wwi \in {words_with_indices(doc)} :
        /\ Len(wwi) = Len(words(doc))
        /\ \A i \in DOMAIN wwi : wwi[i].stop >= wwi[i].start
        /\ \A i \in DOMAIN wwi : i < Len(wwi) =>
              /\ wwi[i].start <= wwi[i + 1].start
              /\ wwi[i].stop <= wwi[i + 1].stop

\* A document of two sentences whose offsets the detector has read.
C8_Witness ==
    /\ pc = "done"
    /\ \E i \in DOMAIN doc : doc[i] = "." /\ 1 < i /\ i < Len(doc)
    /\ \E k \in DOMAIN report.flags : report.flags[k].start > 0

\* C10: the counts are the numbers of Pass-B classified tokens: each
\* classified adjectival complement counts once whatever the number of its
\* referenced subjects, and Pass A adds nothing.
C10_CountsPerToken ==
    pc = "done" =>
        \A parse \in {nlp(doc)} :
            /\ effort_words = Cardinality(EffortTokens(parse))
            /\ accomplishment_words = Cardinality(AccomplishmentTokens(parse))

====
